---- MODULE Spec2Model ----
(***************************************************************************)
(* Soccer training tracker (src/app.py): the Event / TrainingGoal store,   *)
(* the request handlers that change it, and the statistics computation of  *)
(* the /stats page.                                                        *)
(*                                                                         *)
(* Numbers.  Python's None is the empty tuple.  A number (int or float) is *)
(* the exact rational <<n, d>> in lowest terms, d > 0.  The floats the     *)
(* program computes are x = n / d * 100 with n, d event counts; for every  *)
(* pair of counts the bounds below allow (n + d <= 6), round(x, 2) and the *)
(* test "x == round(x, 2)" agree with the same operations on the exact     *)
(* rational (the first pair where the float differs is 11 / 5).            *)
(*                                                                         *)
(* Time.  The clock is a day count `now`; datetime.utcnow() on day `now`   *)
(* yields a timestamp whose date() is DateOf(now).                         *)
(***************************************************************************)
EXTENDS Integers, Sequences, FiniteSets

VARIABLES
    events,   \* the rows of Event, in the order Event.query.all() returns them
    goals,    \* the rows of TrainingGoal, in the order TrainingGoal.query.all() returns them
    now,      \* the clock, in days: what datetime.utcnow() reads
    resp,     \* the response to the last request: redirect target or template, flashed message, template values
    cleared   \* the row counts the bulk deletes of the last admin_clear returned; None once a row has been added since

vars == <<events, goals, now, resp, cleared>>

\* ---------------------------------------------------------------- bounds
MaxEvents == 2
MaxGoals == 1
MaxDay == 1
MaxClockEvents == 2
MaxStatEvents == 3
MaxKeeperEvents == 4

\* --------------------------------------------------------------- numbers
None == <<>>

RECURSIVE GCD(_, _)
GCD(a, b) == IF b = 0 THEN a ELSE GCD(b, a % b)

\* the number n / d (d > 0), in lowest terms
Rat(n, d) == LET g == GCD(n, d) IN <<n \div g, d \div g>>

\* the Python expression  a / b * 100  for ints a, b with b # 0
PercentOf(a, b) == Rat(a * 100, b)

\* round(x, 2): to the nearest hundredth, an exact tie going to the even one
Round2(x) ==
    LET h   == x[1] * 100
        fl  == h \div x[2]
        rem == h % x[2]
        k   == IF 2 * rem > x[2] THEN fl + 1
               ELSE IF 2 * rem < x[2] THEN fl
               ELSE IF fl % 2 = 0 THEN fl ELSE fl + 1
    IN  Rat(k, 100)

\* round(x, 2) if x is not None else None
RoundOrNone(x) == IF x # None THEN Round2(x) ELSE None

\* ----------------------------------------------------------------- dates
\* the date of day 0 of the clock
StartDate == <<2024, 12, 31>>

IsLeap(y) == (y % 4 = 0 /\ y % 100 # 0) \/ y % 400 = 0

DaysInMonth(y, m) ==
    IF m = 2 THEN (IF IsLeap(y) THEN 29 ELSE 28)
    ELSE IF m \in {4, 6, 9, 11} THEN 30 ELSE 31

NextDate(d) ==
    IF d[3] < DaysInMonth(d[1], d[2]) THEN <<d[1], d[2], d[3] + 1>>
    ELSE IF d[2] < 12 THEN <<d[1], d[2] + 1, 1>>
    ELSE <<d[1] + 1, 1, 1>>

\* timestamp.date(): the calendar date <<year, month, day>> of a timestamp
RECURSIVE DateOf(_)
DateOf(ts) == IF ts = 0 THEN StartDate ELSE NextDate(DateOf(ts - 1))

\* date >= date, as datetime.date compares
DateGE(a, b) ==
    \/ a[1] > b[1]
    \/ a[1] = b[1] /\ a[2] > b[2]
    \/ a[1] = b[1] /\ a[2] = b[2] /\ a[3] >= b[3]

\* a text is the sequence of its code points
\* n written in w decimal digits, zero padded
RECURSIVE Digits(_, _)
Digits(n, w) == IF w = 0 THEN <<>> ELSE Append(Digits(n \div 10, w - 1), 48 + (n % 10))

\* date.isoformat(): YYYY-MM-DD
isoformat(d) == Digits(d[1], 4) \o <<45>> \o Digits(d[2], 2) \o <<45>> \o Digits(d[3], 2)

\* str < str: lexicographic on code points
RECURSIVE StrLess(_, _)
StrLess(a, b) ==
    IF b = <<>> THEN FALSE
    ELSE IF a = <<>> THEN TRUE
    ELSE IF Head(a) # Head(b) THEN Head(a) < Head(b)
    ELSE StrLess(Tail(a), Tail(b))

\* sorted(keys): the keys in ascending str order
RECURSIVE sorted(_)
sorted(S) ==
    IF S = {} THEN <<>>
    ELSE LET m == CHOOSE x \in S : \A y \in S : x = y \/ StrLess(x, y)
         IN  <<m>> \o sorted(S \ {m})

\* ------------------------------------------------------------ form input
\* A form text is a sequence of tokens; the token " " is white space.
IsSpace(t) == t = " "

\* str.strip()
RECURSIVE LStrip(_)
LStrip(s) == IF s # <<>> /\ IsSpace(Head(s)) THEN LStrip(Tail(s)) ELSE s

RECURSIVE RStrip(_)
RStrip(s) ==
    IF s # <<>> /\ IsSpace(s[Len(s)]) THEN RStrip(SubSeq(s, 1, Len(s) - 1)) ELSE s

Strip(s) == RStrip(LStrip(s))

DigitChars == {"0", "1", "2", "3", "4", "5", "6", "7", "8", "9"}

DigitVal(c) == CHOOSE n \in 0..9 : <<"0", "1", "2", "3", "4", "5", "6", "7", "8", "9">>[n + 1] = c

\* the value of a run of digits, most significant first
RECURSIVE DigitsVal(_)
DigitsVal(s) ==
    IF s = <<>> THEN 0 ELSE DigitsVal(SubSeq(s, 1, Len(s) - 1)) * 10 + DigitVal(s[Len(s)])

RECURSIVE Pow10(_)
Pow10(n) == IF n = 0 THEN 1 ELSE 10 * Pow10(n - 1)

\* float(text) for the texts "digits" and "digits.digits" (white space around
\* them ignored); None stands for ValueError
ParseFloat(text) ==
    LET s    == Strip(text)
        dots == {i \in DOMAIN s : s[i] = "."}
        ok   == /\ s # <<>>
                /\ \A i \in DOMAIN s : s[i] \in DigitChars \cup {"."}
                /\ Cardinality(dots) <= 1
                /\ \E i \in DOMAIN s : s[i] \in DigitChars
    IN  IF ~ok THEN None
        ELSE IF dots = {} THEN Rat(DigitsVal(s), 1)
        ELSE LET p    == CHOOSE i \in dots : TRUE
                 int  == SubSeq(s, 1, p - 1)
                 frac == SubSeq(s, p + 1, Len(s))
             IN  Rat(DigitsVal(int) * Pow10(Len(frac)) + DigitsVal(frac), Pow10(Len(frac)))

\* ----------------------------------------------------------------- store
OUTFIELD_TYPES == {"shot", "goal", "assist", "pass"}
KEEPER_TYPES == {"shot_on_goal_against", "save", "concede"}

\* the primary key SQLite gives a new row: one more than the largest in use
NewId(rows) ==
    IF rows = <<>> THEN 1
    ELSE (CHOOSE m \in {rows[i].id : i \in DOMAIN rows} :
             \A i \in DOMAIN rows : rows[i].id <= m) + 1

\* a flashed message is <<text, category>>
Redirect(to, flashed) ==
    [code |-> 302, to |-> to, flash |-> flashed, body |-> None]

Init ==
    /\ events = <<>>
    /\ goals = <<>>
    /\ now = 0
    /\ resp = [code |-> 200, to |-> "index.html", flash |-> <<>>, body |-> None]
    /\ cleared = None

\* ------------------------------------------------------------ statistics
IsFieldShot(e) == e.position = "field" /\ e.event_type = "shot"

IsFieldGoal(e) ==
    e.position = "field" /\ (e.event_type = "goal" \/ (e.event_type = "shot" /\ e.scored))

\* mutant: every on-target field event counts, a shot or not
IsOnTargetShot_AnyType(e) == e.position = "field" /\ e.on_target

IsOnTargetShot(e) == e.position = "field" /\ e.event_type = "shot" /\ e.on_target

IsKeeper(e, type) == e.position = "keeper" /\ e.event_type = type

\* sum(1 for e in evs if P(e)), for each of the conditions of stats()
CountFieldShots(evs) == Cardinality({i \in DOMAIN evs : IsFieldShot(evs[i])})
CountOnTarget(evs) == Cardinality({i \in DOMAIN evs : IsOnTargetShot(evs[i])})
CountFieldGoals(evs) == Cardinality({i \in DOMAIN evs : IsFieldGoal(evs[i])})
CountField(evs, type) ==
    Cardinality({i \in DOMAIN evs : evs[i].position = "field" /\ evs[i].event_type = type})
CountKeeper(evs, type) == Cardinality({i \in DOMAIN evs : IsKeeper(evs[i], type)})

\* mutant: 0 in place of None when the denominator is 0
Percentage_ZeroForNone(a, b) == IF b # 0 THEN PercentOf(a, b) ELSE Rat(0, 1)

\* (a / b * 100) if b else None
Percentage(a, b) == IF b # 0 THEN PercentOf(a, b) ELSE None

\* mutant: an unknown metric reports 0
compute_goal_progress_ZeroDefault(metric, target, evs, clock) ==
    IF metric = <<"goals_per_week">> THEN
        Rat(Cardinality({i \in DOMAIN evs :
            IsFieldGoal(evs[i]) /\ DateGE(DateOf(evs[i].timestamp), DateOf(clock))}), 1)
    ELSE IF metric = <<"save_percentage">> THEN
        Percentage(CountKeeper(evs, "save"), CountKeeper(evs, "shot_on_goal_against"))
    ELSE IF metric = <<"shots_per_training">> THEN
        Rat(CountFieldShots(evs), 1)
    ELSE Rat(0, 1)

\* mutant: shots_per_training counts the shots of the current date only
compute_goal_progress_ShotsToday(metric, target, evs, clock) ==
    IF metric = <<"goals_per_week">> THEN
        Rat(Cardinality({i \in DOMAIN evs :
            IsFieldGoal(evs[i]) /\ DateGE(DateOf(evs[i].timestamp), DateOf(clock))}), 1)
    ELSE IF metric = <<"save_percentage">> THEN
        Percentage(CountKeeper(evs, "save"), CountKeeper(evs, "shot_on_goal_against"))
    ELSE IF metric = <<"shots_per_training">> THEN
        Rat(Cardinality({i \in DOMAIN evs :
            IsFieldShot(evs[i]) /\ DateGE(DateOf(evs[i].timestamp), DateOf(clock))}), 1)
    ELSE None

\* mutant: goals_per_week counts the 7 days up to the current date
compute_goal_progress_Trailing7(metric, target, evs, clock) ==
    IF metric = <<"goals_per_week">> THEN
        Rat(Cardinality({i \in DOMAIN evs :
            IsFieldGoal(evs[i]) /\ evs[i].timestamp + 7 >= clock}), 1)
    ELSE IF metric = <<"save_percentage">> THEN
        Percentage(CountKeeper(evs, "save"), CountKeeper(evs, "shot_on_goal_against"))
    ELSE IF metric = <<"shots_per_training">> THEN
        Rat(CountFieldShots(evs), 1)
    ELSE None

\* compute_goal_progress(metric, target, events), called with the clock at `clock`
compute_goal_progress(metric, target, evs, clock) ==
    IF metric = <<"goals_per_week">> THEN
        LET cutoff == DateOf(clock)
            last7  == {i \in DOMAIN evs :
                          IsFieldGoal(evs[i]) /\ DateGE(DateOf(evs[i].timestamp), cutoff)}
        IN  Rat(Cardinality(last7), 1)
    ELSE IF metric = <<"save_percentage">> THEN
        Percentage(CountKeeper(evs, "save"), CountKeeper(evs, "shot_on_goal_against"))
    ELSE IF metric = <<"shots_per_training">> THEN
        Rat(CountFieldShots(evs), 1)
    ELSE None

\* the goals_progress list of stats()
GoalsProgress(gs, evs, clock) ==
    [i \in DOMAIN gs |->
        [metric   |-> gs[i].metric,
         target   |-> gs[i].target,
         progress |-> compute_goal_progress(gs[i].metric, gs[i].target, evs, clock)]]

\* by_date[k], a defaultdict entry
DictGet(d, k) == IF k \in DOMAIN d THEN d[k] ELSE [goals |-> 0, shots |-> 0]

DictSet(d, k, v) == [x \in DOMAIN d \cup {k} |-> IF x = k THEN v ELSE d[x]]

\* mutant: every field event opens an entry for its date
RECURSIVE by_date_EveryFieldEvent(_, _)
by_date_EveryFieldEvent(evs, n) ==
    IF n = 0 THEN <<>>
    ELSE LET e   == evs[n]
             day == isoformat(DateOf(e.timestamp))
             d0  == by_date_EveryFieldEvent(evs, n - 1)
             d1  == IF e.position = "field" THEN DictSet(d0, day, DictGet(d0, day)) ELSE d0
             d2  == IF IsFieldGoal(e)
                    THEN DictSet(d1, day, [DictGet(d1, day) EXCEPT !.goals = @ + 1])
                    ELSE d1
         IN  IF IsFieldShot(e)
             THEN DictSet(d2, day, [DictGet(d2, day) EXCEPT !.shots = @ + 1])
             ELSE d2

\* by_date after the loop of stats() has run over the first n events
RECURSIVE by_date(_, _)
by_date(evs, n) ==
    IF n = 0 THEN <<>>
    ELSE LET e   == evs[n]
             day == isoformat(DateOf(e.timestamp))
             d0  == by_date(evs, n - 1)
             d1  == IF IsFieldGoal(e)
                    THEN DictSet(d0, day, [DictGet(d0, day) EXCEPT !.goals = @ + 1])
                    ELSE d0
         IN  IF IsFieldShot(e)
             THEN DictSet(d1, day, [DictGet(d1, day) EXCEPT !.shots = @ + 1])
             ELSE d1

ChartData(evs) ==
    LET bd    == by_date(evs, Len(evs))
        dates == sorted(DOMAIN bd)
    IN  [labels |-> dates,
         goals  |-> [i \in DOMAIN dates |-> bd[dates[i]].goals],
         shots  |-> [i \in DOMAIN dates |-> bd[dates[i]].shots]]

\* the values stats() hands to the stats.html template
StatsBody(evs, gs, clock) ==
    LET total_shots      == CountFieldShots(evs)
        total_on_target  == CountOnTarget(evs)
        total_goals      == CountFieldGoals(evs)
        shots_on_against == CountKeeper(evs, "shot_on_goal_against")
        saves            == CountKeeper(evs, "save")
    IN  [total_shots          |-> total_shots,
         total_on_target      |-> total_on_target,
         total_goals          |-> total_goals,
         total_assists        |-> CountField(evs, "assist"),
         total_passes         |-> CountField(evs, "pass"),
         goal_percentage      |-> RoundOrNone(Percentage(total_goals, total_shots)),
         on_target_percentage |-> RoundOrNone(Percentage(total_on_target, total_shots)),
         shots_on_against     |-> shots_on_against,
         saves                |-> saves,
         save_percentage      |-> RoundOrNone(Percentage(saves, shots_on_against)),
         goals_allowed        |-> CountKeeper(evs, "concede"),
         goals_progress       |-> GoalsProgress(gs, evs, clock),
         chart_data           |-> ChartData(evs)]

\* -------------------------------------------------------------- handlers
\* mutant: the keeper vocabulary is not checked
ValidationError_NoKeeperCheck(position, event_type) ==
    IF position \notin {"field", "keeper"} THEN <<"Invalid position", "danger">>
    ELSE IF position = "field" /\ event_type \notin OUTFIELD_TYPES
        THEN <<"Invalid outfield event type", "danger">>
    ELSE None

\* mutant: the position is not checked
ValidationError_NoPositionCheck(position, event_type) ==
    IF position = "field" /\ event_type \notin OUTFIELD_TYPES
        THEN <<"Invalid outfield event type", "danger">>
    ELSE IF position = "keeper" /\ event_type \notin KEEPER_TYPES
        THEN <<"Invalid keeper event type", "danger">>
    ELSE None

\* the validation of add_event: the flashed error, or None when the form passes
ValidationError(position, event_type) ==
    IF position \notin {"field", "keeper"} THEN <<"Invalid position", "danger">>
    ELSE IF position = "field" /\ event_type \notin OUTFIELD_TYPES
        THEN <<"Invalid outfield event type", "danger">>
    ELSE IF position = "keeper" /\ event_type \notin KEEPER_TYPES
        THEN <<"Invalid keeper event type", "danger">>
    ELSE None

\* Event(position=..., event_type=..., notes=..., on_target=..., scored=...)
NewEvent(form) ==
    [id         |-> NewId(events),
     timestamp  |-> now,
     position   |-> form.position,
     event_type |-> form.event_type,
     notes      |-> Strip(form.notes),
     on_target  |-> form.on_target = "yes",
     scored     |-> form.scored = "yes"]

\* POST /add with the given form; at most `cap` events are stored
AddEventPost(form, cap) ==
    LET err == ValidationError(form.position, form.event_type)
    IN  IF err # None
        THEN /\ resp' = Redirect("add_event", err)
             /\ UNCHANGED <<events, goals, now, cleared>>
        ELSE /\ Len(events) < cap
             /\ events' = Append(events, NewEvent(form))
             /\ cleared' = None
             /\ resp' = Redirect("index", <<"Event added!", "success">>)
             /\ UNCHANGED <<goals, now>>

NewGoal(metric, target) ==
    [id |-> NewId(goals), metric |-> metric, target |-> target, created_at |-> now]

\* POST /goals with the given form; at most `cap` goals are stored
GoalsPost(form, cap) ==
    LET metric == Strip(form.metric)
        target == ParseFloat(form.target)
    IN  IF target = None
        THEN /\ resp' = Redirect("goals", <<"Target must be a number", "danger">>)
             /\ UNCHANGED <<events, goals, now, cleared>>
        ELSE /\ Len(goals) < cap
             /\ goals' = Append(goals, NewGoal(metric, target))
             /\ cleared' = None
             /\ resp' = Redirect("goals", <<"Training goal added", "success">>)
             /\ UNCHANGED <<events, now>>

\* POST /goal/delete/<goal_id>
delete_goal(goal_id) ==
    IF \E i \in DOMAIN goals : goals[i].id = goal_id
    THEN /\ goals' = SelectSeq(goals, LAMBDA g : g.id # goal_id)
         /\ resp' = Redirect("goals", <<"Goal removed", "info">>)
         /\ UNCHANGED <<events, now, cleared>>
    ELSE /\ resp' = [code |-> 404, to |-> "", flash |-> <<>>, body |-> None]
         /\ UNCHANGED <<events, goals, now, cleared>>

\* mutant: the training goals are not deleted
admin_clear_EventsOnly ==
    /\ events' = <<>>
    /\ cleared' = <<Len(events), 0>>
    /\ resp' = Redirect("index", <<"All data cleared (admin)", "warning">>)
    /\ UNCHANGED <<goals, now>>

\* POST /admin/clear; `cleared` keeps the row counts the two bulk deletes return
\* until the next row is added
admin_clear ==
    /\ events' = <<>>
    /\ goals' = <<>>
    /\ cleared' = <<Len(events), Len(goals)>>
    /\ resp' = Redirect("index", <<"All data cleared (admin)", "warning">>)
    /\ UNCHANGED now

\* GET /stats
stats ==
    /\ resp' = [code |-> 200, to |-> "stats.html", flash |-> <<>>,
                body |-> StatsBody(events, goals, now)]
    /\ UNCHANGED <<events, goals, now, cleared>>

\* the date of the clock advances between requests
Tick ==
    /\ now < MaxDay
    /\ now' = now + 1
    /\ UNCHANGED <<events, goals, resp, cleared>>

\* ---------------------------------------------------------------- inputs
Form(position, event_type, on_target, scored, notes) ==
    [position |-> position, event_type |-> event_type, on_target |-> on_target,
     scored |-> scored, notes |-> notes]

ValidForms ==
    {Form("field", "shot", "yes", "yes", <<>>),
     Form("field", "goal", "", "", <<>>),
     Form("field", "pass", "", "", <<" ", "left foot", " ">>),
     Form("keeper", "shot_on_goal_against", "", "", <<>>),
     Form("keeper", "save", "yes", "", <<>>)}

InvalidForms ==
    {Form("bench", "shot", "yes", "", <<>>),
     Form("Field", "goal", "", "", <<>>),
     Form("field", "save", "", "", <<>>),
     Form("field", "dribble", "", "yes", <<>>),
     Form("keeper", "goal", "", "", <<>>),
     Form("keeper", "Save", "", "", <<>>)}

EventForms == ValidForms \cup InvalidForms

GoalForm(metric, target) == [metric |-> metric, target |-> target]

GoalForms ==
    {GoalForm(<<"goals_per_week">>, <<"3">>),
     GoalForm(<<" ", "save_percentage", " ">>, <<"7", "5">>),
     GoalForm(<<"shots_per_training">>, <<"2", ".", "5">>),
     GoalForm(<<"unknown_metric">>, <<"1">>),
     GoalForm(<<>>, <<" ", "4">>),
     GoalForm(<<"goals_per_week">>, <<"a", "b", "c">>),
     GoalForm(<<"unknown_metric">>, <<>>)}

GoalIds == 1..(MaxGoals + 1)

\* the forms of the statistics specification: every event type, the flags of a shot
StatForms ==
    {Form("field", "shot", "yes", "yes", <<>>),
     Form("field", "shot", "", "", <<>>),
     Form("field", "shot", "yes", "", <<>>),
     Form("field", "goal", "yes", "", <<>>),
     Form("field", "assist", "", "", <<>>),
     Form("field", "pass", "", "yes", <<>>),
     Form("keeper", "shot_on_goal_against", "", "", <<>>),
     Form("keeper", "save", "", "", <<>>),
     Form("keeper", "concede", "", "", <<>>)}

KeeperForms ==
    {Form("keeper", "shot_on_goal_against", "", "", <<>>),
     Form("keeper", "save", "", "", <<>>),
     Form("keeper", "concede", "", "", <<>>)}

KeeperGoalForms == {GoalForm(<<"save_percentage">>, <<"7", "5">>)}

\* the forms of the clock specification
ClockForms ==
    {Form("field", "goal", "", "", <<>>),
     Form("field", "shot", "yes", "yes", <<>>),
     Form("field", "shot", "", "", <<>>)}

ClockGoalForms ==
    {GoalForm(<<"goals_per_week">>, <<"3">>),
     GoalForm(<<"shots_per_training">>, <<"2", ".", "5">>)}

\* -------------------------------------------------------- specifications
\* the requests that change the store, and the stats page, on one day
AddEvent == \E f \in EventForms : AddEventPost(f, MaxEvents)
AddGoal == \E g \in GoalForms : GoalsPost(g, MaxGoals)
DeleteGoal == \E id \in GoalIds : delete_goal(id)

Next == AddEvent \/ AddGoal \/ DeleteGoal \/ admin_clear \/ stats

Spec == Init /\ [][Next]_vars

\* the same requests while the date advances
AddClockEvent == \E f \in ClockForms : AddEventPost(f, MaxClockEvents)
AddClockGoal == \E g \in ClockGoalForms : GoalsPost(g, MaxGoals)

NextClock == AddClockEvent \/ AddClockGoal \/ DeleteGoal \/ admin_clear \/ stats \/ Tick

SpecClock == Init /\ [][NextClock]_vars

\* the statistics over every kind of event, no training goals
AddStatEvent == \E f \in StatForms : AddEventPost(f, MaxStatEvents)

NextStats == AddStatEvent \/ stats \/ Tick

SpecStats == Init /\ [][NextStats]_vars

\* a keeper session with a save_percentage goal
AddKeeperEvent == \E f \in KeeperForms : AddEventPost(f, MaxKeeperEvents)
AddKeeperGoal == \E g \in KeeperGoalForms : GoalsPost(g, MaxGoals)

NextKeeper == AddKeeperEvent \/ AddKeeperGoal \/ stats

SpecKeeper == Init /\ [][NextKeeper]_vars

\* ---------------------------------------------------------------- claims
\* the /stats page is the last response: it was rendered from the rows now stored
StatsShown == resp.to = "stats.html"

FieldVocabulary == {"shot", "goal", "assist", "pass"}
KeeperVocabulary == {"shot_on_goal_against", "save", "concede"}

InVocabulary(position, event_type) ==
    \/ position = "field" /\ event_type \in FieldVocabulary
    \/ position = "keeper" /\ event_type \in KeeperVocabulary

StoredEventsValid ==
    \A i \in DOMAIN events : InVocabulary(events[i].position, events[i].event_type)

StoredAsSubmitted ==
    \A f \in EventForms :
        (AddEventPost(f, MaxEvents) /\ events' # events) =>
            /\ events'[Len(events')].position = f.position
            /\ events'[Len(events')].event_type = f.event_type

\* C1: after any sequence of requests every stored Event has a position in
\* {field, keeper} and an event_type of that position's vocabulary, and an
\* add_event that stores an Event stores the submitted position and event_type.
C1_EventVocabulary == []StoredEventsValid /\ [][StoredAsSubmitted]_vars

C1_Witness ==
    /\ \E i \in DOMAIN events : events[i].position = "keeper" /\ events[i].event_type = "save"
    /\ \E i \in DOMAIN events : events[i].position = "field" /\ events[i].event_type = "pass"
    /\ resp.flash = <<"Event added!", "success">>

AddEventEffect ==
    \A f \in EventForms :
        AddEventPost(f, MaxEvents) =>
            IF InVocabulary(f.position, f.event_type)
            THEN /\ Len(events') = Len(events) + 1
                 /\ SubSeq(events', 1, Len(events)) = events
                 /\ goals' = goals
                 /\ now' = now
            ELSE /\ events' = events
                 /\ goals' = goals
                 /\ resp'.to = "add_event"
                 /\ resp'.flash # <<>> /\ resp'.flash[2] = "danger"

\* C2: an add_event POST with an invalid position or an event_type outside the
\* vocabulary of its position is rejected and leaves the Event and TrainingGoal
\* collections as they were; an accepted one adds exactly one Event and changes
\* nothing else.
C2_RejectOrAddOne == [][AddEventEffect]_vars

C2_Witness ==
    /\ resp.flash = <<"Invalid keeper event type", "danger">>
    /\ events # <<>>
    /\ goals # <<>>

EmptyBaseline(b) ==
    /\ b.total_shots = 0 /\ b.total_on_target = 0 /\ b.total_goals = 0
    /\ b.total_assists = 0 /\ b.total_passes = 0
    /\ b.shots_on_against = 0 /\ b.saves = 0 /\ b.goals_allowed = 0
    /\ b.goal_percentage = None
    /\ b.on_target_percentage = None
    /\ b.save_percentage = None
    /\ b.chart_data = [labels |-> <<>>, goals |-> <<>>, shots |-> <<>>]
    /\ b.goals_progress = <<>>

\* C3: a stats computation run after admin_clear has completed and before any
\* further addition returns the empty baseline: counts 0, percentages null, time
\* series empty, goals_progress empty.
C3_ClearedBaseline == (cleared # None /\ StatsShown) => EmptyBaseline(resp.body)

C3_Witness == cleared # None /\ cleared[1] > 0 /\ cleared[2] > 0 /\ StatsShown

\* the metrics compute_goal_progress knows
KnownMetrics == {<<"goals_per_week">>, <<"save_percentage">>, <<"shots_per_training">>}

NonNumericTargets == {<<"a", "b", "c">>, <<>>}

GoalStored ==
    \A g \in GoalForms :
        GoalsPost(g, MaxGoals) =>
            IF g.target \in NonNumericTargets
            THEN goals' = goals
            ELSE /\ Len(goals') = Len(goals) + 1
                 /\ SubSeq(goals', 1, Len(goals)) = goals
                 /\ goals'[Len(goals')].metric = Strip(g.metric)

GoalsReported ==
    StatsShown =>
        /\ Len(resp.body.goals_progress) = Len(goals)
        /\ \A i \in DOMAIN goals :
              /\ resp.body.goals_progress[i].metric = goals[i].metric
              /\ resp.body.goals_progress[i].target = goals[i].target
              /\ goals[i].metric \notin KnownMetrics =>
                    resp.body.goals_progress[i].progress = None

\* C9: the goals POST stores a goal with any metric text (only a non-numeric
\* target is rejected), and every stats computation reports one {metric, target,
\* progress} entry per stored goal, metric and target as stored, the progress null
\* for a metric other than goals_per_week, save_percentage, shots_per_training.
C9_AnyMetricStoredAndReported == []GoalsReported /\ [][GoalStored]_vars

C9_Witness ==
    /\ StatsShown
    /\ Len(goals) = MaxGoals
    /\ \E i \in DOMAIN goals :
          /\ goals[i].metric \in {<<"unknown_metric">>, <<>>}
          /\ resp.body.goals_progress[i].progress = None

\* a stats body with the progress of every goals_per_week goal blanked
WithoutWeekly(b) ==
    LET gp == b.goals_progress
    IN  [b EXCEPT !.goals_progress =
            [i \in DOMAIN gp |->
                IF gp[i].metric = <<"goals_per_week">>
                THEN [gp[i] EXCEPT !.progress = None]
                ELSE gp[i]]]

\* C6 as stated: two stats computations with no add_event, goals (add),
\* delete_goal or admin_clear in between return identical results in every
\* output field, the progress of every goal included.
C6_Original == [][(StatsShown /\ StatsShown') => resp'.body = resp.body]_vars

\* C6 as amended: two stats computations with no add_event, goals (add),
\* delete_goal or admin_clear in between return identical counts, percentages
\* and time series, and identical metric, target and progress for every goal
\* whose metric is not goals_per_week (that progress depends on the current date).
C6_SameExceptWeekly ==
    [][(StatsShown /\ StatsShown') => WithoutWeekly(resp'.body) = WithoutWeekly(resp.body)]_vars

C6_Witness ==
    /\ StatsShown
    /\ now > 0
    /\ resp.body.total_shots > 0
    /\ \E i \in DOMAIN goals :
          /\ goals[i].metric = <<"goals_per_week">>
          /\ goals[i].created_at < now
          /\ resp.body.goals_progress[i].progress = <<0, 1>>
    /\ \E j \in DOMAIN events : events[j].timestamp < now /\ events[j].event_type = "goal"

WeeklyGoals == {i \in DOMAIN goals : goals[i].metric = <<"goals_per_week">>}

\* the field goal-or-scored-shot events timestamped on day `day` or later
ScoredSince(day) ==
    Cardinality({j \in DOMAIN events :
        /\ events[j].position = "field"
        /\ events[j].event_type = "goal" \/ (events[j].event_type = "shot" /\ events[j].scored)
        /\ events[j].timestamp >= day})

\* the progress a stats computation made in this state reports for goal i
ProgressNow(i) == StatsBody(events, goals, now).goals_progress[i].progress

WeeklyCountsFromToday == \A i \in WeeklyGoals : ProgressNow(i) = <<ScoredSince(now), 1>>

WeeklyReported ==
    (StatsShown' /\ resp' # resp) =>
        \A i \in WeeklyGoals' : resp'.body.goals_progress[i].progress = <<ScoredSince(now)', 1>>

WeeklyResets == now' # now => \A i \in WeeklyGoals' : ProgressNow(i)' = <<0, 1>>

FieldShots ==
    Cardinality({i \in DOMAIN events :
        events[i].position = "field" /\ events[i].event_type = "shot"})

ShotsAgainst ==
    Cardinality({i \in DOMAIN events :
        events[i].position = "keeper" /\ events[i].event_type = "shot_on_goal_against"})

IsNumber(x) == Len(x) = 2 /\ x[1] \in Int /\ x[2] \in Nat \ {0}

NullIffZero(p, denominator) ==
    /\ (p = None) <=> (denominator = 0)
    /\ p # None => IsNumber(p)

\* C4: each percentage is null exactly when its denominator count is 0 and a
\* number otherwise; a zero numerator over a non-zero denominator gives 0.
C4_NullIffZeroDenominator ==
    StatsShown =>
        LET b == resp.body
        IN  /\ b.total_shots = FieldShots
            /\ b.shots_on_against = ShotsAgainst
            /\ NullIffZero(b.goal_percentage, FieldShots)
            /\ NullIffZero(b.on_target_percentage, FieldShots)
            /\ NullIffZero(b.save_percentage, ShotsAgainst)
            /\ (FieldShots > 0 /\ b.total_goals = 0) => b.goal_percentage = <<0, 1>>
            /\ (FieldShots > 0 /\ b.total_on_target = 0) => b.on_target_percentage = <<0, 1>>
            /\ (ShotsAgainst > 0 /\ b.saves = 0) => b.save_percentage = <<0, 1>>

C4_Witness ==
    /\ StatsShown
    /\ resp.body.total_shots > 0
    /\ resp.body.total_goals = 0
    /\ resp.body.goal_percentage = <<0, 1>>
    /\ resp.body.saves > 0
    /\ resp.body.save_percentage = None

ScoredOn(day) ==
    Cardinality({j \in DOMAIN events :
        /\ events[j].position = "field"
        /\ events[j].event_type = "goal" \/ (events[j].event_type = "shot" /\ events[j].scored)
        /\ events[j].timestamp = day})

ShotsOn(day) ==
    Cardinality({j \in DOMAIN events :
        /\ events[j].position = "field"
        /\ events[j].event_type = "shot"
        /\ events[j].timestamp = day})

\* the days that hold a field shot or a field goal-or-scored-shot event
ChartDays == {d \in 0..now : ScoredOn(d) + ShotsOn(d) > 0}

RECURSIVE SumSeq(_)
SumSeq(q) == IF q = <<>> THEN 0 ELSE Head(q) + SumSeq(Tail(q))

\* C7: the time series is three sequences of equal length; the labels are the
\* dates holding a field shot or a field goal-or-scored-shot event, strictly
\* ascending; goals[i] and shots[i] are the counts of labels[i]; the goals
\* entries sum to total_goals and the shots entries to total_shots.
C7_TimeSeries ==
    StatsShown =>
        LET c == resp.body.chart_data
        IN  /\ Len(c.labels) = Len(c.goals)
            /\ Len(c.labels) = Len(c.shots)
            /\ Len(c.labels) = Cardinality(ChartDays)
            /\ \A i \in DOMAIN c.labels :
                  \E d \in ChartDays :
                      /\ c.labels[i] = isoformat(DateOf(d))
                      /\ Cardinality({e \in ChartDays : e < d}) = i - 1
                      /\ c.goals[i] = ScoredOn(d)
                      /\ c.shots[i] = ShotsOn(d)
            /\ SumSeq(c.goals) = resp.body.total_goals
            /\ SumSeq(c.shots) = resp.body.total_shots

C7_Witness ==
    /\ StatsShown
    /\ Len(resp.body.chart_data.labels) = 2
    /\ resp.body.chart_data.shots[1] = 0
    /\ resp.body.chart_data.goals[1] = 1
    /\ \E j \in DOMAIN events : events[j].position = "keeper" /\ events[j].timestamp = 0
    /\ resp.body.chart_data.labels[1] = <<50, 48, 50, 52, 45, 49, 50, 45, 51, 49>>
    /\ resp.body.chart_data.labels[2] = <<50, 48, 50, 53, 45, 48, 49, 45, 48, 49>>

AtLeastZero(p) == p # None => p[1] >= 0
AtMostHundred(p) == p # None => p[1] <= 100 * p[2]

\* C10 as stated: every defined percentage (goal_percentage,
\* on_target_percentage, save_percentage) lies between 0 and 100 inclusive.
C10_Original ==
    StatsShown =>
        /\ AtLeastZero(resp.body.goal_percentage) /\ AtMostHundred(resp.body.goal_percentage)
        /\ AtLeastZero(resp.body.on_target_percentage)
        /\ AtMostHundred(resp.body.on_target_percentage)
        /\ AtLeastZero(resp.body.save_percentage) /\ AtMostHundred(resp.body.save_percentage)

\* C10 as amended: every defined percentage is at least 0, and
\* on_target_percentage is at most 100; goal_percentage and save_percentage
\* have no upper bound of 100.
C10_Bounds ==
    StatsShown =>
        /\ AtLeastZero(resp.body.goal_percentage)
        /\ AtLeastZero(resp.body.on_target_percentage)
        /\ AtMostHundred(resp.body.on_target_percentage)
        /\ AtLeastZero(resp.body.save_percentage)

C10_Witness ==
    /\ StatsShown
    /\ resp.body.on_target_percentage = <<100, 1>>
    /\ resp.body.goal_percentage = <<200, 1>>
    /\ \E j \in DOMAIN events : events[j].event_type = "goal" /\ events[j].on_target

\* C5: the progress reported for a save_percentage goal equals the keeper
\* aggregate save_percentage of the same stats computation (both rounded to 2
\* decimals), and both are null without shot_on_goal_against events.
C5_ProgressIsAggregate ==
    StatsShown =>
        \A i \in DOMAIN goals :
            goals[i].metric = <<"save_percentage">> =>
                resp.body.goals_progress[i].progress = resp.body.save_percentage

====
